---- MODULE Spec2Model ----
(***************************************************************************)
(* Model of the multi-provider data-acquisition orchestrator               *)
(* (backend/app/services/data_acquisition.py): one sync_all_providers call *)
(* that builds one pipeline per recognized provider name, gathers them     *)
(* with return_exceptions=True and folds the outcomes into a report.       *)
(* The provider adapters are the environment: a fetch returns a batch of   *)
(* raw records, raises, or never answers.                                  *)
(***************************************************************************)
EXTENDS Integers, Sequences, FiniteSets, TLC

\* ------------------------------------------------------------------ bounds
\* longest providers list a caller passes
MaxProviders == 3

\* calls of sync_all_providers made on one service object
MaxCalls == 2

\* raw records in one batch handed to the normalization loop
MaxNormBatch == 2

\* ticks of the clock while one batch is normalized
MaxTicks == 2

\* calls of azure_cost_service.get_cost_data handed to the thread pool
MaxAzureFetches == 3

\* ------------------------------------------------------- values and inputs
None == "None"
Absent == "<absent>"

\* provider names a caller may pass: recognized lower-case names, a
\* capitalised spelling that .lower() recognizes, and a misspelt name
Names == {"aws", "Azure", "gcp", "awss"}

Lower(name) == IF name = "Azure" THEN "azure" ELSE name

DefaultProviders == <<"aws", "azure", "gcp">>

Kinds == {"aws", "azure", "gcp"}

\* text of the exception each adapter's fetch raises when it fails
AdapterError(kind) ==
    CASE kind = "aws" -> "Unable to locate credentials"
      [] kind = "azure" -> "401 Client Error: Unauthorized"
      [] kind = "gcp" -> "BigQuery client not initialized. Check GCP credentials."

Causes == {AdapterError(kind) : kind \in Kinds}

\* the keys of a raw record as the adapters' _process_*_response build it
AdapterFields == {"start_date", "end_date", "cost_amount", "cost_currency",
                  "usage_quantity", "usage_unit", "dimensions"}

\* the dimensions mapping of a raw record: given says whether the record
\* has the key 'dimensions' at all; a key the mapping lacks is Absent
AwsDimensions == [given |-> TRUE, service |-> "Amazon EC2",
                  region |-> "us-east-1", resource_id |-> Absent]

\* item.get('dimensions', {}) of a record without the key
EmptyDimensions == [given |-> FALSE, service |-> Absent, region |-> Absent,
                    resource_id |-> Absent]

\* a raw record carrying every key the adapters produce
CompleteRecord == [start_date |-> "2024-01-01", end_date |-> "2024-01-02",
                   cost_amount |-> "12.50", cost_currency |-> "USD",
                   usage_quantity |-> "3", usage_unit |-> "Hrs",
                   dimensions |-> AwsDimensions]

\* the same record without its cost_amount key
NoCostAmountRecord == [CompleteRecord EXCEPT !.cost_amount = Absent]

\* raw records an adapter's source may give: a cost_amount that is not a
\* number, and records that lack one or more of the other keys
BadCostRecord == [CompleteRecord EXCEPT !.cost_amount = "abc"]

NoCurrencyRecord == [CompleteRecord EXCEPT !.cost_currency = Absent]

NoDimensionsRecord == [CompleteRecord EXCEPT !.dimensions = EmptyDimensions]

\* a dimensions mapping without the key 'service'
NoServiceKeyRecord ==
    [CompleteRecord EXCEPT !.dimensions.service = Absent]

\* a GCP billing row whose service column is NULL: the key is there, its
\* value is None
NullServiceRecord ==
    [CompleteRecord EXCEPT !.dimensions.service = None]

\* a GCP billing row whose region column is NULL
NullRegionRecord ==
    [CompleteRecord EXCEPT !.dimensions.region = None]

NoUsageRecord == [CompleteRecord EXCEPT !.usage_quantity = Absent,
                                        !.usage_unit = Absent]

NoStartRecord == [CompleteRecord EXCEPT !.start_date = Absent]

NoEndRecord == [CompleteRecord EXCEPT !.end_date = Absent]

NoDatesRecord == [CompleteRecord EXCEPT !.start_date = Absent,
                                        !.end_date = Absent]

BadStartRecord == [CompleteRecord EXCEPT !.start_date = "not-a-date"]

NormRecords == {CompleteRecord, NoCostAmountRecord, BadCostRecord,
                NoCurrencyRecord, NoDimensionsRecord, NoUsageRecord,
                NoStartRecord, NoEndRecord, NoDatesRecord, BadStartRecord,
                NoServiceKeyRecord, NullServiceRecord, NullRegionRecord}

ThreeValid == <<CompleteRecord, CompleteRecord, CompleteRecord>>

\* what an adapter fetch may return: nothing, a lone record without
\* cost_amount, such a record followed by a valid one, three valid records
RawBatches == {<<>>, <<NoCostAmountRecord>>,
               <<NoCostAmountRecord, CompleteRecord>>, ThreeValid}

SeqsUpTo(S, n) == UNION {[1..k -> S] : k \in 0..n}

ProviderLists == SeqsUpTo(Names, MaxProviders)

\* the batches handed to the normalization loop on its own
NormBatches == SeqsUpTo(NormRecords, MaxNormBatch)

\* the providers argument: None (the default) or a list
NoneArg == [is_none |-> TRUE, value |-> <<>>]

ListArg(list) == [is_none |-> FALSE, value |-> list]

ProviderArgs == {NoneArg} \cup {ListArg(list) : list \in ProviderLists}

\* an Optional[datetime] argument: None or a time, counted in days
NoDate == [is_none |-> TRUE, value |-> 0]

GivenDate(d) == [is_none |-> FALSE, value |-> d]

\* the window arguments of a caller: absent, long past, in the future
DateArgs == {NoDate, GivenDate(10), GivenDate(200)}

\* timedelta(days=30)
DefaultWindowDays == 30

\* datetime.isoformat(): the text of a time
IsoFormat(d) == <<"iso", d>>

NoWindow == [start |-> 0, end |-> 0]

\* what the clock reads when the service object is made, in days
Boot == 100

\* a key of the filters mapping: not there, or there with a list of values
NotGiven == [given |-> FALSE, values |-> <<>>]

Given(values) == [given |-> TRUE, values |-> values]

FilterEntries == {NotGiven, Given(<<>>), Given(<<"a">>), Given(<<"a", "b">>)}

\* the filters mappings a caller may pass
FilterMappings == [services : FilterEntries, regions : FilterEntries,
                   resource_groups : FilterEntries]

\* filter expressions: {} , one Dimensions clause, And of two expressions
EmptyExpr == [op |-> "Empty", key |-> None, values |-> <<>>, args |-> <<>>]

Clause(key, values) ==
    [op |-> "Dimensions", key |-> key, values |-> values, args |-> <<>>]

And(a, b) == [op |-> "And", key |-> None, values |-> <<>>, args |-> <<a, b>>]

\* no filter expression has been built
NoFilt == [builder |-> None, filters |-> [services |-> NotGiven,
                                          regions |-> NotGiven,
                                          resource_groups |-> NotGiven],
           expr |-> EmptyExpr]

\* no POST /sync request has been made
NoResponse == [provider |-> None, status |-> "<none>", records_processed |-> 0,
               message |-> "<none>"]

\* the provider query parameter of POST /sync
EndpointProviders == Names \cup {"all"}

\* get_sync_status has not been called
NoStatus == [asked |-> FALSE, completed |-> 0,
             reply |-> [last_sync |-> None, next_scheduled_sync |-> None,
                        sync_in_progress |-> FALSE]]

\* azure_cost_service as constructed: access_token = None (0 here; the
\* n-th token handed out is n), no request made, no worker running
NoAzure == [access_token |-> 0, requests |-> 0, granted |-> 0,
            workers |-> <<>>]

\* _process_and_store_cost_data is not running
NoNorm == [pc |-> "idle", raw_cost_data |-> <<>>, provider |-> None, i |-> 0,
           processed_count |-> 0, log |-> <<>>]

\* no report has been returned yet
NoReport == [status |-> "<none>", total_records_processed |-> 0,
             provider_results |-> <<>>,
             sync_period |-> [start_date |-> IsoFormat(0),
                              end_date |-> IsoFormat(0)]]

\* ------------------------------------------------------------------- state
\* phase, requested, providers, tasks, report: one sync_all_providers call
\* window: its start_date and end_date once resolved
\* calls: the calls made so far; clock: what datetime.utcnow() reads
\* norm: a run of _process_and_store_cost_data taken item by item, with
\* what it logs for each item
\* azure: the one azure_cost_service object and the thread-pool workers
\* running its get_cost_data
\* filt: a call of an adapter's _build_filter_expression and its result
\* status: the last answer of get_sync_status and the number of syncs that
\* had returned when it was asked
\* response: the provider a POST /sync request named and the SyncResult
\* the endpoint answered with
VARIABLES phase, requested, providers, tasks, report, window, calls, clock,
          norm, azure, filt, status, response

vars == <<phase, requested, providers, tasks, report, window, calls, clock,
          norm, azure, filt, status, response>>

\* ------------------------------------------------ CostDataCreate (schema)
\* fields of CostDataBase declared with Field(...) : required
RequiredFields == {"provider", "service", "resource_id", "resource_type",
                   "region", "cost_amount", "timestamp"}

\* required fields whose type is not Optional: None is rejected
NonNullFields == RequiredFields

\* texts Decimal accepts
NumericTexts == {"12.50"}

\* pydantic validation of CostDataCreate(**kwargs); unknown keyword
\* arguments are ignored, a missing or null required field is an error,
\* and so is a cost_amount that is no Decimal
ValidationFails(kwargs) ==
    \/ \E f \in RequiredFields :
          \/ f \notin DOMAIN kwargs
          \/ f \in NonNullFields /\ kwargs[f] = None
    \/ "cost_amount" \in DOMAIN kwargs /\ kwargs.cost_amount \notin NumericTexts

\* ------------------------------------------- _process_and_store_cost_data
\* item['k'] raises KeyError when the key is absent
KeyErrors(item) == {k \in {"cost_amount", "cost_currency"} : item[k] = Absent}

Get(item, k, default) == IF item[k] = Absent THEN default ELSE item[k]

\* item.get('dimensions', {}).get(k, default): the default stands in for
\* a key that is not there, not for a key whose value is None
DimGet(item, k, default) ==
    IF item.dimensions[k] = Absent THEN default ELSE item.dimensions[k]

\* every date is taken for missing
Truthy_never(v) == FALSE

\* "if item.get('start_date')": the key is there and its value is not
\* None or empty
Truthy(v) == v \notin {Absent, None, ""}

\* the texts datetime.fromisoformat parses
IsoTexts == {"2024-01-01", "2024-01-02"}

\* datetime.fromisoformat(text), in days
FromIsoFormat(text) ==
    CASE text = "2024-01-01" -> 1
      [] text = "2024-01-02" -> 2

\* datetime.fromisoformat raises ValueError for these keys
DateErrors(item) ==
    {k \in {"start_date", "end_date"} : Truthy(item[k]) /\ item[k] \notin IsoTexts}

\* a missing date is set to the other date of the record when that one is
\* given
DateOf_other(item, k, now) ==
    LET other == IF k = "start_date" THEN "end_date" ELSE "start_date"
    IN IF Truthy(item[k]) THEN FromIsoFormat(item[k])
       ELSE IF Truthy(item[other]) THEN FromIsoFormat(item[other])
       ELSE now

\* fromisoformat(item[k]) if item.get(k) else utcnow()
DateOf(item, k, now) ==
    IF Truthy(item[k]) THEN FromIsoFormat(item[k]) ELSE now

\* the keyword arguments of the CostDataCreate(...) call, built when the
\* clock reads now
Kwargs(item, provider, now) ==
    [provider |-> provider,
     service |-> DimGet(item, "service", "Unknown"),
     region |-> DimGet(item, "region", "Unknown"),
     resource_id |-> DimGet(item, "resource_id", None),
     cost_amount |-> item.cost_amount,
     cost_currency |-> item.cost_currency,
     usage_quantity |-> Get(item, "usage_quantity", None),
     usage_unit |-> Get(item, "usage_unit", None),
     start_date |-> DateOf(item, "start_date", now),
     end_date |-> DateOf(item, "end_date", now),
     tags |-> item.dimensions,
     metadata |-> [raw_data |-> item, processed_at |-> IsoFormat(now)]]

\* the exception the body of the try block raises for this item, if any
ErrorOf(item, provider, now) ==
    IF KeyErrors(item) # {} THEN "KeyError"
    ELSE IF DateErrors(item) # {} THEN "ValueError"
    ELSE IF ValidationFails(Kwargs(item, provider, now)) THEN "ValidationError"
    ELSE None

RecordRaises(item, provider, now) == ErrorOf(item, provider, now) # None

RECURSIVE ProcessLoop(_, _, _, _, _)
ProcessLoop(raw_cost_data, provider, now, i, processed_count) ==
    IF i > Len(raw_cost_data) THEN processed_count
    ELSE IF RecordRaises(raw_cost_data[i], provider, now)
         THEN ProcessLoop(raw_cost_data, provider, now, i + 1, processed_count)
         ELSE ProcessLoop(raw_cost_data, provider, now, i + 1,
                          processed_count + 1)

ProcessAndStore(raw_cost_data, provider, now) ==
    ProcessLoop(raw_cost_data, provider, now, 1, 0)

\* ------------------------------------------------------ sync_all_providers
\* a name is taken for the provider whose name it starts with
Recognized_loose(provider) == Lower(provider) \in Kinds \/ provider = "awss"

Recognized(provider) == Lower(provider) \in Kinds

\* mutant: "if not providers" also replaces an empty list by the default
ResolveProviders_falsy(arg) ==
    IF arg.is_none \/ arg.value = <<>> THEN DefaultProviders ELSE arg.value

ResolveProviders(arg) ==
    IF arg.is_none THEN DefaultProviders ELSE arg.value

\* start_date / end_date defaults: two reads of the clock
ResolveWindow(sd, ed, now1, now2) ==
    [start |-> IF sd.is_none THEN now1 - DefaultWindowDays ELSE sd.value,
     end |-> IF ed.is_none THEN now2 ELSE ed.value]

\* a pipeline coroutine made without the window of the call
NewTask_unwindowed(kind, win) ==
    [kind |-> kind, pc |-> "pending", batch |-> <<>>, count |-> 0,
     error |-> None, window |-> NoWindow, fetches |-> 0]

\* a pipeline coroutine with the window it was given; fetches counts the
\* calls it has made to its adapter
NewTask(kind, win) == [kind |-> kind, pc |-> "pending", batch |-> <<>>,
                       count |-> 0, error |-> None, window |-> win,
                       fetches |-> 0]

\* the loop that creates one coroutine per recognized name, in list order
RECURSIVE CreateTasks(_, _, _, _)
CreateTasks(provs, win, i, acc) ==
    IF i > Len(provs) THEN acc
    ELSE IF Recognized(provs[i])
         THEN CreateTasks(provs, win, i + 1,
                          Append(acc, NewTask(Lower(provs[i]), win)))
         ELSE CreateTasks(provs, win, i + 1, acc)

Terminal(t) == t.pc \in {"succeeded", "failed"}

\* mutant: gather without return_exceptions
ReturnExceptions_off == FALSE

\* asyncio.gather(*tasks, return_exceptions=True)
ReturnExceptions == TRUE

\* mutant: the wait ends as soon as one pipeline is done
GatherDone_first(ts) == \E i \in 1..Len(ts) : Terminal(ts[i])

\* mutant: the wait gives up on pipelines whose adapter never answers
GatherDone_abandon(ts) ==
    \A i \in 1..Len(ts) : Terminal(ts[i]) \/ ts[i].pc = "hung"

GatherDone(ts) ==
    IF ReturnExceptions
    THEN \A i \in 1..Len(ts) : Terminal(ts[i])
    ELSE \/ \A i \in 1..Len(ts) : Terminal(ts[i])
         \/ \E i \in 1..Len(ts) : ts[i].pc = "failed"

GatherRaises(ts) ==
    ~ReturnExceptions /\ \E i \in 1..Len(ts) : ts[i].pc = "failed"

\* what gather hands back for one task: the exception or the returned dict
Completed(t) ==
    IF t.pc = "failed"
    THEN [is_exception |-> TRUE, text |-> t.error]
    ELSE [is_exception |-> FALSE,
          value |-> [status |-> "success", records_processed |-> t.count,
                     provider |-> t.kind]]

CompletedResults(ts) == [i \in 1..Len(ts) |-> Completed(ts[i])]

ResultEntry(result) ==
    IF result.is_exception
    THEN [status |-> "error", error |-> result.text, records_processed |-> 0]
    ELSE result.value

Put(results, key, entry) ==
    [k \in DOMAIN results \cup {key} |-> IF k = key THEN entry ELSE results[k]]

\* for i, result in enumerate(completed_results): results[providers[i]] = ...
RECURSIVE ProcessResults(_, _, _, _)
ProcessResults(completed, provs, i, results) ==
    IF i > Len(completed) THEN results
    ELSE ProcessResults(completed, provs, i + 1,
                        Put(results, provs[i], ResultEntry(completed[i])))

RECURSIVE SumRecords(_, _)
SumRecords(results, keys) ==
    IF keys = {} THEN 0
    ELSE LET k == CHOOSE x \in keys : TRUE
         IN results[k].records_processed + SumRecords(results, keys \ {k})

\* mutant: counts the successful entries instead of adding their records
TotalRecords_entries(results) ==
    Cardinality({k \in DOMAIN results : results[k].status = "success"})

TotalRecords(results) == SumRecords(results, DOMAIN results)

\* results kept on the service object from one call to the next
FreshResults_kept == report.provider_results

\* results = {} : a local of the call
FreshResults == <<>>

\* a status that tells of the providers' failures
ReportStatus_worst(results) ==
    IF \E k \in DOMAIN results : results[k].status = "error"
    THEN "failed" ELSE "completed"

\* 'status': 'completed', whatever the provider entries say
ReportStatus(results) == "completed"

BuildReport(ts, provs, win) ==
    LET results == ProcessResults(CompletedResults(ts), provs, 1, FreshResults)
    IN [status |-> ReportStatus(results),
        total_records_processed |-> TotalRecords(results),
        provider_results |-> results,
        sync_period |-> [start_date |-> IsoFormat(win.start),
                         end_date |-> IsoFormat(win.end)]]

\* ----------------------------------------------------------------- actions
Init ==
    /\ phase = "idle"
    /\ requested = NoneArg
    /\ providers = <<>>
    /\ tasks = <<>>
    /\ report = NoReport
    /\ window = NoWindow
    /\ calls = 0
    /\ clock = Boot
    /\ norm = NoNorm
    /\ azure = NoAzure
    /\ filt = NoFilt
    /\ status = NoStatus
    /\ response = NoResponse

\* sync_all_providers(start_date=sd, end_date=ed, providers=arg) up to the
\* await on gather; the clock moves on by d between its two reads
Invoke(arg, sd, ed, d) ==
    LET win == ResolveWindow(sd, ed, clock, clock + d)
    IN /\ requested' = arg
       /\ providers' = ResolveProviders(arg)
       /\ window' = win
       /\ tasks' = CreateTasks(ResolveProviders(arg), win, 1, <<>>)
       /\ phase' = "gathering"
       /\ calls' = calls + 1
       /\ clock' = clock + d
       /\ UNCHANGED <<report, norm, azure, filt, status, response>>

\* the caller invokes sync_all_providers(providers=arg)
SyncCall(arg) ==
    /\ phase = "idle"
    /\ Invoke(arg, NoDate, NoDate, 0)

\* pipelines awaited one after another: a fetch is submitted only when the
\* pipeline before it has finished
MayStart_sequential(i) == \A j \in 1..(i - 1) : Terminal(tasks[j])

\* gather wraps every coroutine in a task at once; the event loop starts
\* them in list order, none waiting for an earlier one to finish
MayStart(i) == \A j \in 1..(i - 1) : tasks[j].pc # "pending"

\* the caller invokes sync_all_providers(start_date=sd, end_date=ed,
\* providers=arg)
SyncCallWindow(arg, sd, ed, d) ==
    /\ phase = "idle"
    /\ Invoke(arg, sd, ed, d)

\* the caller invokes sync_all_providers(providers=arg) once more on the
\* same service object, after an earlier call returned
SyncAgain(arg) ==
    /\ phase = "returned"
    /\ calls < MaxCalls
    /\ Invoke(arg, NoDate, NoDate, 0)

\* the event loop runs a pipeline up to its await on run_in_executor, where
\* the adapter call is handed to the thread pool
StartTask(i) ==
    /\ phase = "gathering"
    /\ tasks[i].pc = "pending"
    /\ MayStart(i)
    /\ tasks' = [tasks EXCEPT ![i].pc = "fetching",
                              ![i].fetches = tasks[i].fetches + 1]
    /\ UNCHANGED <<phase, requested, providers, report, window, calls, clock, norm,
                   azure, filt, status, response>>

AllStarted == \A j \in 1..Len(tasks) : tasks[j].pc # "pending"

\* the single-threaded event loop resumes a suspended coroutine only when
\* no scheduled task is ready to start and no pipeline is running its
\* normalization, which has no await in it
LoopFree ==
    \A j \in 1..Len(tasks) :
        /\ tasks[j].pc # "normalizing"
        /\ tasks[j].pc = "pending" => ~MayStart(j)

\* the adapter call returned a batch of raw records
FetchReturn(i, raw_cost_data) ==
    /\ phase = "gathering"
    /\ LoopFree
    /\ tasks[i].pc = "fetching"
    /\ tasks' = [tasks EXCEPT ![i].pc = "normalizing",
                              ![i].batch = raw_cost_data]
    /\ UNCHANGED <<phase, requested, providers, report, window, calls, clock, norm,
                   azure, filt, status, response>>

\* the adapter call raised; the pipeline calls its adapter a second time
\* before it gives up
FetchRaise_retry(i) ==
    /\ phase = "gathering"
    /\ LoopFree
    /\ tasks[i].pc = "fetching"
    /\ tasks' = IF tasks[i].fetches < 2
                THEN [tasks EXCEPT ![i].fetches = tasks[i].fetches + 1]
                ELSE [tasks EXCEPT ![i].pc = "failed",
                                   ![i].error = AdapterError(tasks[i].kind)]
    /\ UNCHANGED <<phase, requested, providers, report, window, calls, clock, norm,
                   azure, filt, status, response>>

\* the adapter call raised; the pipeline logs and re-raises
FetchRaise(i) ==
    /\ phase = "gathering"
    /\ LoopFree
    /\ tasks[i].pc = "fetching"
    /\ tasks' = [tasks EXCEPT ![i].pc = "failed", ![i].error = AdapterError(tasks[i].kind)]
    /\ UNCHANGED <<phase, requested, providers, report, window, calls, clock, norm,
                   azure, filt, status, response>>

\* the adapter call never answers: the pipeline stays suspended for good
FetchHang(i) ==
    /\ phase = "gathering"
    /\ LoopFree
    /\ tasks[i].pc = "fetching"
    /\ tasks' = [tasks EXCEPT ![i].pc = "hung"]
    /\ UNCHANGED <<phase, requested, providers, report, window, calls, clock, norm,
                   azure, filt, status, response>>

\* _process_and_store_cost_data and the return of the success dict
Normalize(i) ==
    /\ phase = "gathering"
    /\ tasks[i].pc = "normalizing"
    /\ tasks' = [tasks EXCEPT
                   ![i].pc = "succeeded",
                   ![i].count = ProcessAndStore(tasks[i].batch, tasks[i].kind,
                                                clock)]
    /\ UNCHANGED <<phase, requested, providers, report, window, calls, clock, norm,
                   azure, filt, status, response>>

\* gather completes; the rest of sync_all_providers runs to its return
GatherReturn ==
    /\ phase = "gathering"
    /\ AllStarted
    /\ GatherDone(tasks)
    /\ IF GatherRaises(tasks)
       THEN phase' = "raised" /\ UNCHANGED report
       ELSE phase' = "returned"
            /\ report' = BuildReport(tasks, providers, window)
    /\ UNCHANGED <<requested, providers, tasks, window, calls, clock, norm,
                   azure, filt, status, response>>

\* the arguments built for the item and the exception raised, as the loop
\* logs them when the clock reads now
LogEntry(item, provider, now) ==
    [at |-> now,
     error |-> ErrorOf(item, provider, now),
     kwargs |-> IF KeyErrors(item) # {} \/ DateErrors(item) # {}
                THEN [built |-> FALSE]
                ELSE Kwargs(item, provider, now)]

\* _process_and_store_cost_data(raw_cost_data, provider) is called
NormCall(raw_cost_data, provider) ==
    /\ norm.pc = "idle"
    /\ norm' = [pc |-> "loop", raw_cost_data |-> raw_cost_data,
                provider |-> provider, i |-> 1, processed_count |-> 0,
                log |-> <<>>]
    /\ UNCHANGED <<phase, requested, providers, tasks, report, window, calls,
                   clock,
                   azure, filt, status, response>>

\* one turn of the for loop: the try block and its except
NormItem ==
    /\ norm.pc = "loop"
    /\ norm.i <= Len(norm.raw_cost_data)
    /\ LET item == norm.raw_cost_data[norm.i]
       IN norm' = [norm EXCEPT
                     !.i = norm.i + 1,
                     !.processed_count =
                         IF RecordRaises(item, norm.provider, clock)
                         THEN norm.processed_count
                         ELSE norm.processed_count + 1,
                     !.log = Append(norm.log,
                                    LogEntry(item, norm.provider, clock))]
    /\ UNCHANGED <<phase, requested, providers, tasks, report, window, calls,
                   clock,
                   azure, filt, status, response>>

\* time passes while the loop runs
Tick ==
    /\ norm.pc = "loop"
    /\ clock < Boot + MaxTicks
    /\ clock' = clock + 1
    /\ UNCHANGED <<phase, requested, providers, tasks, report, window, calls,
                   norm,
                   azure, filt, status, response>>

\* return processed_count
NormReturn ==
    /\ norm.pc = "loop"
    /\ norm.i > Len(norm.raw_cost_data)
    /\ norm' = [norm EXCEPT !.pc = "returned"]
    /\ UNCHANGED <<phase, requested, providers, tasks, report, window, calls,
                   clock,
                   azure, filt, status, response>>

\* everything but the Azure adapter object
SyncVars == <<phase, requested, providers, tasks, report, window, calls,
              clock, norm, filt, status, response>>

\* an azure pipeline hands azure_cost_service.get_cost_data to the thread
\* pool, which has a free worker for it
AzureSubmit ==
    /\ Len(azure.workers) < MaxAzureFetches
    /\ azure' = [azure EXCEPT
                   !.workers = Append(azure.workers, [pc |-> "check", token |-> 0])]
    /\ UNCHANGED SyncVars

\* "if self.access_token", tested without a lock: 0 reads as no token
CacheHit == azure.access_token # 0

\* _get_access_token up to the token request
AzureCheck(w) ==
    /\ azure.workers[w].pc = "check"
    /\ IF CacheHit
       THEN azure' = [azure EXCEPT !.workers[w].pc = "query",
                                   !.workers[w].token = azure.access_token]
       ELSE azure' = [azure EXCEPT !.workers[w].pc = "requesting",
                                   !.requests = azure.requests + 1]
    /\ UNCHANGED SyncVars

\* the token request succeeds: the token is stored and returned
AzureTokenGranted(w) ==
    /\ azure.workers[w].pc = "requesting"
    /\ azure' = [azure EXCEPT !.granted = azure.granted + 1,
                              !.access_token = azure.granted + 1,
                              !.workers[w].pc = "query",
                              !.workers[w].token = azure.granted + 1]
    /\ UNCHANGED SyncVars

\* raise_for_status raises: get_cost_data logs and re-raises, the cache
\* is left as it was
AzureTokenRefused(w) ==
    /\ azure.workers[w].pc = "requesting"
    /\ azure' = [azure EXCEPT !.workers[w].pc = "raised"]
    /\ UNCHANGED SyncVars

\* the cost query is answered and get_cost_data returns
AzureQueryReturn(w) ==
    /\ azure.workers[w].pc = "query"
    /\ azure' = [azure EXCEPT !.workers[w].pc = "returned"]
    /\ UNCHANGED SyncVars

\* AWSCostExplorerService._build_filter_expression(filters)
AwsFilterExpression(filters) ==
    LET services == IF filters.services.given
                    THEN Clause("SERVICE", filters.services.values)
                    ELSE EmptyExpr
    IN IF filters.regions.given
       THEN IF services # EmptyExpr
            THEN And(services, Clause("REGION", filters.regions.values))
            ELSE Clause("REGION", filters.regions.values)
       ELSE services

\* AzureCostManagementService._build_filter_expression(filters)
AzureFilterExpression(filters) ==
    LET groups == Clause("ResourceGroupName", filters.resource_groups.values)
    IN IF filters.services.given
       THEN And(groups, Clause("ServiceName", filters.services.values))
       ELSE groups

\* the AWS adapter builds the filter of a query
BuildAwsFilter(filters) ==
    /\ filt.builder = None
    /\ filt' = [builder |-> "aws", filters |-> filters,
                expr |-> AwsFilterExpression(filters)]
    /\ UNCHANGED <<phase, requested, providers, tasks, report, window, calls,
                   clock, norm, azure, status, response>>

\* the Azure adapter builds the filter of a query
BuildAzureFilter(filters) ==
    /\ filt.builder = None
    /\ filt' = [builder |-> "azure", filters |-> filters,
                expr |-> AzureFilterExpression(filters)]
    /\ UNCHANGED <<phase, requested, providers, tasks, report, window, calls,
                   clock, norm, azure, status, response>>

\* the sync calls that have returned so far
CompletedSyncs == IF phase = "gathering" THEN calls - 1 ELSE calls

\* get_sync_status(): the same literal answer whatever has run
GetSyncStatus ==
    /\ status' = [asked |-> TRUE, completed |-> CompletedSyncs,
                  reply |-> [last_sync |-> None,
                             next_scheduled_sync |-> None,
                             sync_in_progress |-> FALSE]]
    /\ UNCHANGED <<phase, requested, providers, tasks, report, window, calls,
                   clock, norm, azure, filt, response>>

\* POST /sync?provider=...: the endpoint calls sync_all_providers, for
\* 'all' without a list and else with the one name
EndpointCall(provider, sd, ed) ==
    /\ phase = "idle"
    /\ response' = [NoResponse EXCEPT !.provider = provider,
                                      !.status = "<pending>"]
    /\ LET arg == IF provider = "all" THEN NoneArg ELSE ListArg(<<provider>>)
           win == ResolveWindow(sd, ed, clock, clock)
       IN /\ requested' = arg
          /\ providers' = ResolveProviders(arg)
          /\ window' = win
          /\ tasks' = CreateTasks(ResolveProviders(arg), win, 1, <<>>)
          /\ phase' = "gathering"
          /\ calls' = calls + 1
    /\ UNCHANGED <<report, clock, norm, azure, filt, status>>

\* the SyncResult built from the report of a single-provider sync
SingleSyncResult(provider, sync_result) ==
    LET found == provider \in DOMAIN sync_result.provider_results
        provider_result == sync_result.provider_results[provider]
    IN [provider |-> provider,
        status |-> IF found THEN provider_result.status ELSE "error",
        records_processed |->
            IF found THEN provider_result.records_processed ELSE 0,
        message |-> IF found /\ "error" \in DOMAIN provider_result
                    THEN provider_result.error
                    ELSE "Sync completed successfully"]

\* the SyncResult built from the report of a sync of all providers
AllSyncResult(sync_result) ==
    [provider |-> "all",
     status |-> sync_result.status,
     records_processed |-> sync_result.total_records_processed,
     message |-> "Multi-provider sync completed"]

\* the endpoint resumes after the await and returns its SyncResult; an
\* exception of the call is answered with an error SyncResult
EndpointReturn ==
    /\ response.status = "<pending>"
    /\ phase \in {"returned", "raised"}
    /\ response' =
          IF phase = "raised"
          THEN [provider |-> response.provider, status |-> "error",
                records_processed |-> 0, message |-> "Sync failed"]
          ELSE IF response.provider = "all" THEN AllSyncResult(report)
          ELSE SingleSyncResult(response.provider, report)
    /\ phase' = "responded"
    /\ UNCHANGED <<requested, providers, tasks, report, window, calls, clock,
                   norm, azure, filt, status>>

\* gcp_billing_service was constructed without GCP_CREDENTIALS_PATH, so
\* bq_client is None: its get_cost_data raises at once and only the other
\* adapters can answer or stay silent
FetchReturnNoBqClient(i, raw_cost_data) ==
    /\ tasks[i].kind # "gcp"
    /\ FetchReturn(i, raw_cost_data)

FetchHangNoBqClient(i) ==
    /\ tasks[i].kind # "gcp"
    /\ FetchHang(i)

Fetching == {i \in 1..Len(tasks) : tasks[i].pc = "fetching"}

Next ==
    \/ phase = "idle" /\ \E arg \in ProviderArgs : SyncCall(arg)
    \/ \E i \in 1..Len(tasks) : StartTask(i)
    \/ \E i \in Fetching, b \in RawBatches : FetchReturn(i, b)
    \/ \E i \in Fetching : FetchRaise(i)
    \/ \E i \in Fetching : FetchHang(i)
    \/ \E i \in 1..Len(tasks) : Normalize(i)
    \/ GatherReturn

Spec == Init /\ [][Next]_vars

FairSpec == Spec /\ WF_vars(Next)

\* the provider lists of the calls that give a window
WindowProviderArgs == {ListArg(<<"gcp">>), ListArg(<<"aws", "Azure">>)}

\* the steps of one sync whose caller may give start_date and end_date
NextWindow ==
    \/ phase = "idle" /\ \E arg \in WindowProviderArgs :
           \E sd \in DateArgs : \E ed \in DateArgs : \E d \in 0..1 :
               SyncCallWindow(arg, sd, ed, d)
    \/ \E i \in 1..Len(tasks) : StartTask(i)
    \/ \E i \in Fetching : \E raw_cost_data \in RawBatches :
           FetchReturn(i, raw_cost_data)
    \/ \E i \in Fetching : FetchRaise(i)
    \/ \E i \in Fetching : FetchHang(i)
    \/ \E i \in 1..Len(tasks) : Normalize(i)
    \/ GatherReturn

WindowSpec == Init /\ [][NextWindow]_vars

\* the provider lists of the calls made one after another
CallsProviderArgs == {ListArg(<<"aws">>), ListArg(<<"gcp", "aws">>)}

\* the steps of several syncs made one after another on one service object
NextCalls ==
    \/ phase = "idle" /\ \E arg \in CallsProviderArgs : SyncCall(arg)
    \/ phase = "returned" /\ \E arg \in CallsProviderArgs : SyncAgain(arg)
    \/ GetSyncStatus
    \/ \E i \in 1..Len(tasks) : StartTask(i)
    \/ \E i \in Fetching : \E raw_cost_data \in RawBatches :
           FetchReturn(i, raw_cost_data)
    \/ \E i \in Fetching : FetchRaise(i)
    \/ \E i \in Fetching : FetchHang(i)
    \/ \E i \in 1..Len(tasks) : Normalize(i)
    \/ GatherReturn

CallsSpec == Init /\ [][NextCalls]_vars

\* the steps of one run of the normalization loop on a batch
NextNorm ==
    \/ norm.pc = "idle" /\ \E raw_cost_data \in NormBatches :
           \E provider \in Kinds : NormCall(raw_cost_data, provider)
    \/ NormItem
    \/ Tick
    \/ NormReturn

NormSpec == Init /\ [][NextNorm]_vars

\* the steps of the thread-pool workers running the Azure adapter
NextAzure ==
    \/ AzureSubmit
    \/ \E w \in 1..Len(azure.workers) : AzureCheck(w)
    \/ \E w \in 1..Len(azure.workers) : AzureTokenGranted(w)
    \/ \E w \in 1..Len(azure.workers) : AzureTokenRefused(w)
    \/ \E w \in 1..Len(azure.workers) : AzureQueryReturn(w)

AzureSpec == Init /\ [][NextAzure]_vars

\* one call of a filter builder
NextFilter ==
    \/ \E filters \in FilterMappings : BuildAwsFilter(filters)
    \/ \E filters \in FilterMappings : BuildAzureFilter(filters)

FilterSpec == Init /\ [][NextFilter]_vars

\* the steps of one POST /sync request
NextEndpoint ==
    \/ phase = "idle" /\ \E provider \in EndpointProviders :
           \E sd \in DateArgs : \E ed \in DateArgs :
               EndpointCall(provider, sd, ed)
    \/ \E i \in 1..Len(tasks) : StartTask(i)
    \/ \E i \in Fetching : \E raw_cost_data \in RawBatches :
           FetchReturn(i, raw_cost_data)
    \/ \E i \in Fetching : FetchRaise(i)
    \/ \E i \in Fetching : FetchHang(i)
    \/ \E i \in 1..Len(tasks) : Normalize(i)
    \/ GatherReturn
    \/ EndpointReturn

EndpointSpec == Init /\ [][NextEndpoint]_vars

\* the provider lists of the syncs made without GCP credentials
NoBqClientProviderArgs ==
    {NoneArg} \cup {ListArg(list) : list \in SeqsUpTo(Names, 2)}

\* the steps of one sync while the GCP adapter has no BigQuery client
NextNoBqClient ==
    \/ phase = "idle" /\ \E arg \in NoBqClientProviderArgs : SyncCall(arg)
    \/ \E i \in 1..Len(tasks) : StartTask(i)
    \/ \E i \in Fetching : \E raw_cost_data \in RawBatches :
           FetchReturnNoBqClient(i, raw_cost_data)
    \/ \E i \in Fetching : FetchRaise(i)
    \/ \E i \in Fetching : FetchHangNoBqClient(i)
    \/ \E i \in 1..Len(tasks) : Normalize(i)
    \/ GatherReturn

NoBqClientSpec == Init /\ [][NextNoBqClient]_vars

\* ================================================================== claims
Returned == phase = "returned"

Results == report.provider_results

TaskIds == 1..Len(tasks)

\* the pipeline created for position i of the providers list
PipelineOf(i) == Cardinality({j \in 1..i : Recognized(providers[j])})

RequestedRecognized ==
    {providers[i] : i \in {j \in 1..Len(providers) : Recognized(providers[j])}}

\* C1: the keys of provider_results in a returned report are exactly the
\* requested names that are recognized; no unrecognized name is a key and
\* no requested recognized name is missing.
C1_KeysAreRecognizedRequested ==
    Returned => DOMAIN Results = RequestedRecognized

\* sum of records_processed over the entries, folded in list order of a
\* fixed enumeration of the names
RECURSIVE C2_Fold(_, _)
C2_Fold(results, names) ==
    IF names = <<>> THEN 0
    ELSE (IF Head(names) \in DOMAIN results
          THEN results[Head(names)].records_processed ELSE 0)
         + C2_Fold(results, Tail(names))

C2_AllNames == <<"aws", "azure", "gcp", "Azure", "awss">>

\* C2: in every returned report total_records_processed equals the sum of
\* records_processed over all entries of provider_results.
C2_TotalIsSum ==
    Returned => report.total_records_processed = C2_Fold(Results, C2_AllNames)

\* a report with a success entry and an error entry
C2_Witness ==
    /\ Returned
    /\ \E k \in DOMAIN Results : Results[k].status = "success"
    /\ \E k \in DOMAIN Results : Results[k].status = "error"

\* no pipeline of the provider served by pipeline t has failed
C3_ProviderDidNotFail(t) ==
    \A u \in TaskIds : tasks[u].kind = tasks[t].kind => tasks[u].pc = "succeeded"

\* C3: when one provider's adapter raises, every other requested provider
\* whose pipeline completed is reported under its name with status success.
C3_SiblingsReportedSuccess ==
    (Returned /\ \E t \in TaskIds : tasks[t].pc = "failed") =>
        \A i \in 1..Len(providers) :
            (Recognized(providers[i]) /\ C3_ProviderDidNotFail(PipelineOf(i))) =>
                /\ providers[i] \in DOMAIN Results
                /\ Results[providers[i]].status = "success"

\* number of raw records of a batch that lack a key the adapters produce
C4_Defective(batch) ==
    Cardinality({i \in 1..Len(batch) :
                    \/ \E f \in AdapterFields \ {"dimensions"} :
                          batch[i][f] = Absent
                    \/ ~batch[i].dimensions.given})

\* C4: a pipeline that fetched N records of which K cannot be normalized
\* succeeds with records_processed = N - K; records carrying every key the
\* adapters produce all count (K = 0 gives N).
C4_CountIsFetchedMinusDefective ==
    \A t \in TaskIds :
        tasks[t].pc = "succeeded" =>
            /\ Completed(tasks[t]).value.status = "success"
            /\ Completed(tasks[t]).value.records_processed =
                   Len(tasks[t].batch) - C4_Defective(tasks[t].batch)

\* C5: no report exists while a launched pipeline has not reached a
\* terminal state (succeeded or failed).
C5_ReportOnlyAfterAllTerminal ==
    (Returned \/ report # NoReport) => \A t \in TaskIds : Terminal(tasks[t])

\* a report over a failed and a succeeded pipeline
C5_Witness ==
    /\ Returned
    /\ \E t \in TaskIds : tasks[t].pc = "failed"
    /\ \E t \in TaskIds : tasks[t].pc = "succeeded"

C7_Scenario ==
    (/\ Returned
     /\ providers = DefaultProviders
     /\ tasks[1].pc = "succeeded" /\ tasks[1].batch = ThreeValid
     /\ tasks[2].pc = "failed"
     /\ tasks[3].pc = "succeeded" /\ tasks[3].batch = ThreeValid) =>
        /\ Results["aws"].status = "success"
        /\ Results["aws"].records_processed = 3
        /\ Results["gcp"].status = "success"
        /\ Results["gcp"].records_processed = 3
        /\ Results["azure"].status = "error"
        /\ Results["azure"].records_processed = 0
        /\ Results["azure"].error = tasks[2].error
        /\ report.total_records_processed = 6

\* C8: an empty providers list gives a report with no entries and a total
\* of 0, without raising and without the default provider set.
C8_EmptyListEmptyReport ==
    (requested = ListArg(<<>>) /\ phase # "idle") =>
        /\ tasks = <<>>
        /\ phase # "raised"
        /\ Returned => (DOMAIN Results = {} /\ report.total_records_processed = 0)

C8_Witness == Returned /\ requested = ListArg(<<>>)

\* number of records of a batch that carry a cost_amount
C9_WithCostAmount(batch) ==
    Cardinality({i \in 1..Len(batch) : batch[i].cost_amount # Absent})

\* C9: a record without cost_amount is dropped alone: its pipeline still
\* succeeds, a lone such record gives records_processed 0, and the other
\* records of the batch are still processed.
C9_DroppedAlone ==
    \A t \in TaskIds :
        (tasks[t].pc = "succeeded"
           /\ \E i \in 1..Len(tasks[t].batch) :
                  tasks[t].batch[i].cost_amount = Absent) =>
            /\ Completed(tasks[t]).value.status = "success"
            /\ tasks[t].count = C9_WithCostAmount(tasks[t].batch)

C11_FetchesOverlap ==
    \A t \in TaskIds : \A u \in TaskIds :
        tasks[t].pc = "pending" => tasks[u].pc \in {"pending", "fetching"}

\* all three fetches of a default sync are in flight at the same time
C11_Witness ==
    /\ Len(tasks) = 3
    /\ \A t \in TaskIds : tasks[t].pc = "fetching" /\ tasks[t].fetches = 1
    /\ {tasks[t].kind : t \in TaskIds} = Kinds

\* C12: every report the sync returns has top-level status "completed",
\* also when providers failed; the report has no other top-level field
\* that tells of a failure, which shows only in the provider entries
C12_StatusAlwaysCompleted ==
    Returned =>
        /\ report.status = "completed"
        /\ DOMAIN report = {"status", "total_records_processed",
                            "provider_results", "sync_period"}

\* a report in which every launched provider failed
C12_Witness ==
    /\ Returned
    /\ Len(tasks) = 3
    /\ \A t \in TaskIds : tasks[t].pc = "failed"
    /\ \A k \in DOMAIN Results : Results[k].status = "error"
    /\ report.status = "completed"

\* the caller gave a non-empty list and the orchestrator knows none of its
\* names
C13_AllUnrecognized ==
    /\ phase # "idle"
    /\ ~requested.is_none
    /\ Len(requested.value) >= 1
    /\ \A i \in 1..Len(requested.value) :
           requested.value[i] \notin {"aws", "Azure", "gcp"}

\* C13: a sync whose requested names are all unrecognized launches no
\* pipeline and returns, without raising, a report with status
\* "completed", no provider entry and a total of 0
C13_UnknownNamesEmptyReport ==
    C13_AllUnrecognized =>
        /\ tasks = <<>>
        /\ phase # "raised"
        /\ Returned => /\ report.status = "completed"
                       /\ DOMAIN Results = {}
                       /\ report.total_records_processed = 0

\* the report of a sync asked for 'awss' alone
C13_Witness ==
    /\ Returned
    /\ requested = ListArg(<<"awss">>)
    /\ providers = <<"awss">>
    /\ DOMAIN Results = {}

\* C14: the time window of a sync, which every adapter is given and the
\* report's sync_period repeats, has start <= end whatever dates the
\* caller gave or left out
C14_WindowOrdered ==
    phase # "idle" =>
        /\ window.start <= window.end
        /\ \A t \in TaskIds : tasks[t].window.start <= tasks[t].window.end

\* C15: a sync keeps nothing on the service object: in every call, also a
\* later one, each requested provider's pipeline makes its own adapter
\* fetch, and the report holds exactly the entries of this call's
\* pipelines, each built from what its adapter answered in this call
C15_EachCallOnItsOwn ==
    /\ \A t \in TaskIds : tasks[t].fetches = (IF tasks[t].pc = "pending" THEN 0 ELSE 1)
    /\ phase # "idle" => Len(tasks) = Len(providers)
    /\ Returned =>
         /\ DOMAIN Results = {providers[i] : i \in TaskIds}
         /\ \A i \in TaskIds :
                Results[providers[i]] = ResultEntry(Completed(tasks[i]))

\* a second call for 'aws' alone has returned aws's failure; whatever the
\* first call reported for gcp is not in its report
C15_Witness ==
    /\ calls = 2
    /\ Returned
    /\ requested = ListArg(<<"aws">>)
    /\ tasks[1].pc = "failed"
    /\ DOMAIN Results = {"aws"}
    /\ Results["aws"].status = "error"

\* the moves of a pipeline; "hung" is a fetch that never answers
C16_Forward ==
    {<<"pending", "fetching">>, <<"fetching", "normalizing">>,
     <<"fetching", "failed">>, <<"fetching", "hung">>,
     <<"normalizing", "succeeded">>, <<"normalizing", "failed">>}

C16_Step ==
    \A i \in TaskIds :
        /\ i \in 1..Len(tasks')
        /\ tasks'[i].kind = tasks[i].kind
        /\ \/ tasks'[i].pc = tasks[i].pc
           \/ <<tasks[i].pc, tasks'[i].pc>> \in C16_Forward
        /\ tasks'[i].fetches = (IF tasks'[i].pc = "pending" THEN 0 ELSE 1)
        /\ tasks[i].pc \in {"fetching", "hung"} => tasks[i].fetches = 1

\* C16: within a sync every pipeline only moves forward, pending to
\* fetching to normalizing to one terminal state; a terminal state never
\* changes, a failed fetch is never followed by normalizing, and the
\* pipeline calls its adapter exactly once, with no retry
C16_ForwardOnly == [][C16_Step]_vars

\* one pipeline has succeeded and another has failed, each after a single
\* adapter call
C16_Witness ==
    /\ Returned
    /\ \E t \in TaskIds : tasks[t].pc = "succeeded" /\ tasks[t].fetches = 1
    /\ \E u \in TaskIds : tasks[u].pc = "failed" /\ tasks[u].fetches = 1

\* the items the normalization loop has gone through so far
LogIds == 1..Len(norm.log)

\* the loop got as far as the CostDataCreate(...) call for item i
Built(i) == norm.log[i].error \notin {"KeyError", "ValueError"}

DateKeys == {"start_date", "end_date"}

\* C17 as stated: normalizing the same raw record with the same provider
\* tag twice, at different times, gives the same result in every field,
\* dates and raw-source snapshot included
C17_SameRecordSameResult ==
    \A i \in LogIds : \A j \in LogIds :
        norm.raw_cost_data[i] = norm.raw_cost_data[j] =>
            /\ norm.log[i].error = norm.log[j].error
            /\ norm.log[i].kwargs = norm.log[j].kwargs

\* C17 (amended): two normalizations of the same raw record with the same
\* provider tag end the same way and build the same value for every field
\* but those read from the clock: metadata.processed_at is the time of
\* the normalization, and so is each date the raw record does not give
C17_SameButClockReadings ==
    \A i \in LogIds : \A j \in LogIds :
        norm.raw_cost_data[i] = norm.raw_cost_data[j] =>
            /\ norm.log[i].error = norm.log[j].error
            /\ Built(i) =>
                 LET item == norm.raw_cost_data[i]
                     a == norm.log[i].kwargs
                     b == norm.log[j].kwargs
                 IN /\ \A f \in DOMAIN a \ ({"metadata"} \cup DateKeys) :
                           a[f] = b[f]
                    /\ a.metadata.raw_data = b.metadata.raw_data
                    /\ a.metadata.processed_at = IsoFormat(norm.log[i].at)
                    /\ \A k \in DateKeys :
                          /\ item[k] \in IsoTexts =>
                                a[k] = b[k] /\ a[k] = FromIsoFormat(item[k])
                          /\ item[k] = Absent => a[k] = norm.log[i].at

\* the same complete record normalized at two different times: the two
\* results differ in processed_at alone
C17_Witness ==
    /\ Len(norm.log) = 2
    /\ norm.raw_cost_data = <<CompleteRecord, CompleteRecord>>
    /\ norm.log[1].at < norm.log[2].at
    /\ norm.log[1].kwargs.metadata.processed_at
         # norm.log[2].kwargs.metadata.processed_at
    /\ norm.log[1].kwargs.start_date = norm.log[2].kwargs.start_date

\* C18: a raw record whose cost_amount is a number is never rejected for
\* lacking cost_currency, dimensions, usage or dates, and a record without
\* cost_currency gets the adapter's currency
C18_OptionalNeverFails ==
    \A i \in LogIds :
        LET item == norm.raw_cost_data[i]
        IN (item.cost_amount \in NumericTexts
            /\ \A k \in DateKeys : item[k] \in IsoTexts \cup {Absent}) =>
               /\ norm.log[i].error = None
               /\ item.cost_currency = Absent =>
                     norm.log[i].kwargs.cost_currency = "USD"

\* C19: a raw record whose start_date or end_date is missing or cannot be
\* parsed, and which is complete otherwise, is accepted and counted, with
\* the time of the normalization in place of that date
C19_BadDatesStamped ==
    \A i \in LogIds :
        LET item == norm.raw_cost_data[i]
            bad == {k \in DateKeys : item[k] \notin IsoTexts}
        IN (bad # {} /\ \A f \in AdapterFields \ DateKeys :
                           item[f] = CompleteRecord[f]) =>
               /\ norm.log[i].error = None
               /\ \A k \in bad : norm.log[i].kwargs[k] = norm.log[i].at
               /\ norm.pc = "returned" => norm.processed_count >= 1

\* raw record i gives exactly one of its two dates
C20_OneDate(i) ==
    /\ Built(i)
    /\ \E k \in DateKeys : norm.raw_cost_data[i][k] \in IsoTexts
    /\ \E k \in DateKeys : norm.raw_cost_data[i][k] = Absent

\* C20 as stated: when a raw record gives only one of start_date and
\* end_date, both dates of the result are the given one
C20_BothEqualSupplied ==
    \A i \in LogIds :
        C20_OneDate(i) =>
            \A k \in DateKeys : \A g \in DateKeys :
                norm.raw_cost_data[i][g] \in IsoTexts =>
                    norm.log[i].kwargs[k] = FromIsoFormat(norm.raw_cost_data[i][g])

\* C20 (amended): when a raw record gives only one of start_date and
\* end_date, the given date is parsed as it is and the other one is the
\* time of the normalization, not the given date
C20_MissingDateIsNow ==
    \A i \in LogIds :
        C20_OneDate(i) =>
            \A k \in DateKeys :
                norm.log[i].kwargs[k] =
                    IF norm.raw_cost_data[i][k] \in IsoTexts
                    THEN FromIsoFormat(norm.raw_cost_data[i][k])
                    ELSE norm.log[i].at

\* a record with a start_date only, normalized after the clock moved on
C20_Witness ==
    \E i \in LogIds :
        /\ norm.raw_cost_data[i] = NoEndRecord
        /\ norm.log[i].at > Boot
        /\ norm.log[i].kwargs.start_date = 1
        /\ norm.log[i].kwargs.end_date = norm.log[i].at

\* C21: the service and the region built for a record are never null or
\* empty: when the dimensions mapping is absent, lacks the key or holds it
\* with a null value, the field is "Unknown"
C21_UnknownForNoValue ==
    \A i \in LogIds :
        Built(i) =>
            \A k \in {"service", "region"} :
                /\ norm.log[i].kwargs[k] \notin {None, Absent, ""}
                /\ norm.raw_cost_data[i].dimensions[k] \in {Absent, None} =>
                      norm.log[i].kwargs[k] = "Unknown"

\* C22: the sync_period of a report is the window that was used: every
\* pipeline of the call was given one and the same window, defaults
\* included, and the report repeats its start and end
C22_ReportedWindowIsUsed ==
    /\ \A t \in TaskIds : tasks[t].window = window
    /\ Returned =>
         /\ report.sync_period.start_date = <<"iso", window.start>>
         /\ report.sync_period.end_date = <<"iso", window.end>>
         /\ \A t \in TaskIds :
                /\ report.sync_period.start_date = <<"iso", tasks[t].window.start>>
                /\ report.sync_period.end_date = <<"iso", tasks[t].window.end>>

\* a report of two pipelines for a caller-given start and a defaulted end
C22_Witness ==
    /\ Returned
    /\ Len(tasks) = 2
    /\ window.start = 10
    /\ window.end = clock
    /\ report.sync_period.start_date = <<"iso", 10>>
    /\ \A t \in TaskIds : tasks[t].fetches = 1 /\ tasks[t].window.end = clock

\* the workers that are between reading and writing access_token
C23_InTokenCache ==
    {w \in 1..Len(azure.workers) :
        azure.workers[w].pc \in {"check", "requesting"}}

\* C23: pipelines that run at the same time share no mutable object: the
\* credential cache of the Azure adapter is in use by at most one running
\* pipeline at a time
C23_CacheOneAtATime == Cardinality(C23_InTokenCache) <= 1

\* C29: the Azure adapter is granted a token at most once: once a token
\* request has succeeded, no fetch, overlapping or later, requests another
C29_TokenRequestedOnce ==
    /\ azure.granted <= 1
    /\ \A w \in 1..Len(azure.workers) :
           azure.workers[w].pc \in {"query", "returned"} =>
               azure.workers[w].token = 1

\* the filter dimensions a builder knows, with the vendor's name of each
C24_Dimensions(builder) ==
    IF builder = "aws"
    THEN <<[dim |-> "services", key |-> "SERVICE"],
           [dim |-> "regions", key |-> "REGION"]>>
    ELSE <<[dim |-> "resource_groups", key |-> "ResourceGroupName"],
           [dim |-> "services", key |-> "ServiceName"]>>

\* the clauses due: one per known dimension that the mapping names
C24_Due(builder, filters) ==
    SelectSeq([n \in 1..2 |->
                 [given |-> filters[C24_Dimensions(builder)[n].dim].given,
                  clause |-> Clause(C24_Dimensions(builder)[n].key,
                                    filters[C24_Dimensions(builder)[n].dim].values)]],
              LAMBDA d : d.given)

\* C24: a filter builder returns the AND of one IN-clause per dimension
\* named in the filters mapping and no clause for a dimension the mapping
\* does not name
C24_ClausePerDimension ==
    filt.builder # None =>
        LET due == C24_Due(filt.builder, filt.filters)
        IN filt.expr = (IF Len(due) = 0 THEN EmptyExpr
                        ELSE IF Len(due) = 1 THEN due[1].clause
                        ELSE And(due[1].clause, due[2].clause))

\* C25: once a sync has returned, get_sync_status answers with a last_sync
\* value for it, not with the empty value it gives before any sync
C25_LastSyncRecorded ==
    (status.asked /\ status.completed >= 1) =>
        status.reply.last_sync # None

\* C26: every entry of provider_results is the outcome of the provider it
\* is filed under: a success entry names the lower-cased key as its
\* provider, an error entry carries the error of that key's own adapter
C26_FiledUnderOwnProvider ==
    Returned =>
        \A k \in DOMAIN Results :
            /\ Results[k].status = "success" => Results[k].provider = Lower(k)
            /\ Results[k].status = "error" =>
                  /\ Lower(k) \in Kinds
                  /\ Results[k].error = AdapterError(Lower(k))

\* the sum of the counts the pipelines t..Len(tasks) returned
RECURSIVE C27_Counts(_)
C27_Counts(t) ==
    IF t > Len(tasks) THEN 0
    ELSE (IF tasks[t].pc = "succeeded" THEN tasks[t].count ELSE 0)
         + C27_Counts(t + 1)

\* C27: no launched pipeline's outcome is lost: a report has as many
\* provider entries as pipelines were launched, and its total is the sum
\* of the counts all launched pipelines returned
C27_NoOutcomeLost ==
    Returned =>
        /\ Cardinality(DOMAIN Results) = Len(tasks)
        /\ report.total_records_processed = C27_Counts(1)

\* C28: a POST /sync for a single named provider is answered with a
\* SyncResult that agrees with the report: status "success" exactly when
\* the message is "Sync completed successfully", and with status "error"
\* (pipeline failed or name unrecognized) records_processed is 0 and the
\* message is an error text
C28_ResultConsistent ==
    (phase = "responded" /\ response.provider # "all") =>
        /\ response.status = "success"
             <=> response.message = "Sync completed successfully"
        /\ response.status = "error" =>
             /\ response.records_processed = 0
             /\ response.message # "Sync completed successfully"

\* the positions of the requested list that name a known provider
C30_Known == {i \in 1..Len(providers) : Recognized(providers[i])}

\* C30: without GCP credentials every sync that requests gcp reports the
\* gcp entry with status "error", the adapter's error and
\* records_processed 0, never as a success, and the entries of the other
\* requested providers are the outcomes of their own pipelines
C30_GcpReportedAsError ==
    (Returned /\ \E g \in C30_Known : Lower(providers[g]) = "gcp") =>
        \A i \in C30_Known :
            /\ providers[i] \in DOMAIN Results
            /\ Lower(providers[i]) = "gcp" =>
                  Results[providers[i]] =
                      [status |-> "error", error |-> AdapterError("gcp"),
                       records_processed |-> 0]
            /\ Lower(providers[i]) # "gcp" =>
                  \E t \in TaskIds :
                      /\ tasks[t].kind = Lower(providers[i])
                      /\ Results[providers[i]] = ResultEntry(Completed(tasks[t]))

====
